---- MODULE Spec2Model ----
(***************************************************************************)
(* Model of the teenvest market simulator (src/market_simulator.py) and of *)
(* the request handlers of the trading application that use it             *)
(* (src/app.py).                                                           *)
(*                                                                         *)
(* Prices and cash are Python floats in the source.  They are modelled as  *)
(* exact decimal numbers: a number is a record [i, f] that stands for      *)
(* i + f / Unit, with 0 <= f < Unit (i is the floor, so a negative number  *)
(* has i < 0).  Two limbs keep every intermediate value inside the 32-bit  *)
(* integers of TLC.               Binary rounding error of the floats is  *)
(* not modelled; round(x, 2) is round-half-to-even on the exact value.     *)
(***************************************************************************)
EXTENDS Integers, Sequences, FiniteSets, TLC

VARIABLES
    prices,       \* Market.prices: symbol -> price
    pre,          \* the price table before the latest call or request
    last,         \* the latest direct call of a Market method and its result
    queried,      \* symbols passed so far to get_price, get_snapshot, simulate_movement
    moved,        \* symbols passed so far to simulate_movement
    ops,          \* direct calls so far that mutate the price table
    updates,      \* direct calls of update_prices so far
    balance,      \* User.balance of every user row
    holdings,     \* Holding rows: user -> symbol -> [shares, avg_price]
    session,      \* the browser's Flask session
    req,          \* the latest request and what its handler did
    preBalance,   \* balance before the latest request
    preHoldings,  \* holdings before the latest request
    preSession,   \* session before the latest request
    requests      \* requests so far that change state

vars == <<prices, pre, last, queried, moved, ops, updates,
          balance, holdings, session, req, preBalance, preHoldings, preSession,
          requests>>

callLog == <<last, queried, moved, ops, updates>>
appVars == <<balance, holdings, session, req, preBalance, preHoldings, preSession,
             requests>>

(***************************************************************************)
(* Bounds of the model.                                                    *)
(***************************************************************************)
\* simulate_movement calls a price may take since it was last a 2-decimal
\* value: each call adds two decimal digits to the stored price.
MaxMoves == 2
\* Calls that mutate the price table in one behaviour.
MaxOps == 3
\* update_prices calls in one behaviour.
MaxUpdates == 1
\* State-changing requests to the application in one behaviour.
MaxRequests == 3

(***************************************************************************)
(* Decimal arithmetic.                                                     *)
(***************************************************************************)
RECURSIVE Pow10(_)
Pow10(n) == IF n = 0 THEN 1 ELSE 10 * Pow10(n - 1)

FracDigits == 2 + 2 * MaxMoves
Unit == Pow10(FracDigits)
Cent == Unit \div 100

\* dollars.cents as a number
Dec(whole, cents) == [i |-> whole, f |-> cents * Cent]

Norm(i, f) == [i |-> i + (f \div Unit), f |-> f % Unit]

Add(x, y) == Norm(x.i + y.i, x.f + y.f)
Sub(x, y) == Norm(x.i - y.i, x.f - y.f)
Leq(x, y) == x.i < y.i \/ (x.i = y.i /\ x.f <= y.f)
Zero == Dec(0, 0)
AbsDiff(x, y) == IF Leq(x, y) THEN Sub(y, x) ELSE Sub(x, y)

\* x * k for an integer k >= 0
MulInt(x, k) == Norm(x.i * k, x.f * k)

\* x / 100, exact when x has at most FracDigits - 2 decimals
Div100(x) == [i |-> x.i \div 100, f |-> (x.i % 100) * Cent + (x.f \div 100)]

\* x / k truncated to the resolution of the model, k > 0, x >= 0
DivInt(x, k) == [i |-> x.i \div k, f |-> ((x.i % k) * Unit + x.f) \div k]

\* x * (1 + pct/100)
MulPct(x, pct) ==
    IF pct >= 0 THEN Add(x, MulInt(Div100(x), pct))
                ELSE Sub(x, MulInt(Div100(x), -pct))

\* x can be multiplied by (1 + pct/100) without losing digits
Scalable(x) == x.f % 100 = 0

\* round(x, 2)
Round2(x) ==
    LET q == x.f \div Cent
        r == x.f % Cent
        up == 2 * r > Cent \/ (2 * r = Cent /\ q % 2 = 1)
    IN  Norm(x.i, (IF up THEN q + 1 ELSE q) * Cent)

(***************************************************************************)
(* Market (src/market_simulator.py).                                       *)
(***************************************************************************)
Fallback == Dec(100, 0)
MovePct == 1
MaxShockPct == 2

\* Market.__init__: the demo price table
SeedPrices ==
    [s \in {"AAPL", "TSLA", "INFY", "TCS", "RELI", "BTC", "ETH", "DOGE"} |->
        CASE s = "AAPL" -> Dec(180, 0)
          [] s = "TSLA" -> Dec(250, 0)
          [] s = "INFY" -> Dec(1600, 0)
          [] s = "TCS"  -> Dec(3700, 0)
          [] s = "RELI" -> Dec(2900, 0)
          [] s = "BTC"  -> Dec(65000, 0)
          [] s = "ETH"  -> Dec(3500, 0)
          [] s = "DOGE" -> Dec(0, 15)]

SeedSymbols == DOMAIN SeedPrices

\* Symbols the callers pass; "ZZZ" is not in the demo table.
Symbols == {"AAPL", "DOGE", "ZZZ"}

\* random.choice([-0.01, 0.01]), in percent
Movements == {-MovePct, MovePct}

\* random.uniform(-0.02, 0.02), in percent; the ends and the middle of the
\* interval are drawn
Shocks == {-MaxShockPct, 0, MaxShockPct}

Range(q) == { q[k] : k \in DOMAIN q }

\* self.prices.get(symbol, 100.0)
PricesGet(tbl, symbol) == IF symbol \in DOMAIN tbl THEN tbl[symbol] ELSE Fallback

\* self.prices[symbol] = value
PricesSet(tbl, symbol, value) ==
    [s \in DOMAIN tbl \cup {symbol} |-> IF s = symbol THEN value ELSE tbl[s]]

\* get_price with a default of 0 for a missing symbol
get_price_ZeroDefault(tbl, symbol) ==
    IF symbol \in DOMAIN tbl THEN tbl[symbol] ELSE Zero

\* get_price: the value returned
get_price(tbl, symbol) == PricesGet(tbl, symbol)

\* get_snapshot: the mapping returned, built entry by entry over the list
RECURSIVE get_snapshot(_, _)
get_snapshot(tbl, symbols) ==
    IF symbols = << >> THEN [s \in {} |-> Zero]
    ELSE LET n == Len(symbols)
             snapshot == get_snapshot(tbl, SubSeq(symbols, 1, n - 1))
             symbol == symbols[n]
             price == PricesGet(tbl, symbol)
         IN  [s \in DOMAIN snapshot \cup {symbol} |->
                 IF s = symbol THEN Round2(price) ELSE snapshot[s]]

\* get_snapshot entering the fallback price for the symbols it misses
TableAfterGetSnapshot_SetDefault(tbl, symbols) ==
    [s \in DOMAIN tbl \cup Range(symbols) |-> PricesGet(tbl, s)]

\* the price table after get_price / get_snapshot returned
TableAfterGetPrice(tbl, symbol) == tbl
TableAfterGetSnapshot(tbl, symbols) == tbl

\* simulate_movement starting from the demo price on every call
NewPrice_FromSeed(tbl, symbol, movement) ==
    MulPct(PricesGet(SeedPrices, symbol), movement)

\* simulate_movement: new_price, before rounding
NewPrice(tbl, symbol, movement) == MulPct(PricesGet(tbl, symbol), movement)

\* simulate_movement storing nothing for a symbol the table lacks
TableAfterMovement_KnownOnly(tbl, symbol, movement) ==
    IF symbol \in DOMAIN tbl
    THEN PricesSet(tbl, symbol, MulPct(PricesGet(tbl, symbol), movement))
    ELSE tbl

\* simulate_movement storing the rounded price
TableAfterMovement_Rounded(tbl, symbol, movement) ==
    PricesSet(tbl, symbol, Round2(MulPct(PricesGet(tbl, symbol), movement)))

\* simulate_movement rounding the whole table as update_prices does
TableAfterMovement_RoundAll(tbl, symbol, movement) ==
    LET t == PricesSet(tbl, symbol, MulPct(PricesGet(tbl, symbol), movement))
    IN  [s \in DOMAIN t |-> IF s = symbol THEN t[s] ELSE Round2(t[s])]

\* simulate_movement: the price table after the call
TableAfterMovement(tbl, symbol, movement) ==
    PricesSet(tbl, symbol, NewPrice(tbl, symbol, movement))

\* simulate_movement: the first component of the value returned
MovementReturn(tbl, symbol, movement) == Round2(NewPrice(tbl, symbol, movement))

\* update_prices applying each draw twice over
TableAfterUpdate_Doubled(tbl, shock) ==
    [s \in DOMAIN tbl |-> Round2(MulPct(tbl[s], 2 * shock[s]))]

\* update_prices: the price table after the call; shock[s] is the movement
\* drawn for s
TableAfterUpdate(tbl, shock) ==
    [s \in DOMAIN tbl |-> Round2(MulPct(tbl[s], shock[s]))]

\* the draws of one update_prices call: one per symbol in the table; the
\* symbols outside Symbols draw 0
ShockVectors(tbl) ==
    { [s \in DOMAIN tbl |-> IF s \in Symbols THEN g[s] ELSE 0] :
        g \in [Symbols -> Shocks] }

NoSnapshot == [s \in {} |-> Zero]

\* the symbol lists passed to get_snapshot: the empty list, unknown and
\* repeated symbols, and the listing of index() and trade_page()
SnapshotLists ==
    { << >>, <<"ZZZ">>, <<"DOGE", "AAPL">>, <<"AAPL", "ZZZ", "AAPL">>,
      <<"INFY", "TCS", "RELI", "AAPL", "TSLA", "BTC", "ETH", "DOGE">> }

Call(op, syms, ret, snap, step) ==
    [op |-> op, syms |-> syms, ret |-> ret, snap |-> snap, step |-> step]

MarketInit ==
    /\ prices = SeedPrices
    /\ pre = SeedPrices
    /\ last = Call("init", << >>, Zero, NoSnapshot, 0)
    /\ queried = {}
    /\ moved = {}
    /\ ops = 0
    /\ updates = 0

GetPrice(symbol) ==
    /\ prices' = TableAfterGetPrice(prices, symbol)
    /\ pre' = prices
    /\ last' = Call("get_price", <<symbol>>, get_price(prices, symbol), NoSnapshot, 0)
    /\ queried' = queried \cup {symbol}
    /\ UNCHANGED <<moved, ops, updates>>

GetSnapshot(symbols) ==
    /\ prices' = TableAfterGetSnapshot(prices, symbols)
    /\ pre' = prices
    /\ last' = Call("get_snapshot", symbols, Zero, get_snapshot(prices, symbols), 0)
    /\ queried' = queried \cup Range(symbols)
    /\ UNCHANGED <<moved, ops, updates>>

SimulateMovement(symbol, movement) ==
    /\ ops < MaxOps
    /\ Scalable(PricesGet(prices, symbol))
    /\ prices' = TableAfterMovement(prices, symbol, movement)
    /\ pre' = prices
    /\ last' = Call("simulate_movement", <<symbol>>,
                    MovementReturn(prices, symbol, movement), NoSnapshot, movement)
    /\ queried' = queried \cup {symbol}
    /\ moved' = moved \cup {symbol}
    /\ ops' = ops + 1
    /\ UNCHANGED updates

UpdatePrices(shock) ==
    /\ ops < MaxOps
    /\ updates < MaxUpdates
    /\ \A s \in DOMAIN prices : Scalable(prices[s])
    /\ prices' = TableAfterUpdate(prices, shock)
    /\ pre' = prices
    /\ last' = Call("update_prices", << >>, Zero, NoSnapshot, 0)
    /\ ops' = ops + 1
    /\ updates' = updates + 1
    /\ UNCHANGED <<queried, moved>>

GetPriceCall == \E symbol \in Symbols : GetPrice(symbol)
GetSnapshotCall == \E symbols \in SnapshotLists : GetSnapshot(symbols)
SimulateMovementCall ==
    \E symbol \in Symbols : \E movement \in Movements : SimulateMovement(symbol, movement)
UpdatePricesCall == \E shock \in ShockVectors(prices) : UpdatePrices(shock)

(***************************************************************************)
(* Trading application (src/app.py).                                       *)
(***************************************************************************)
DemoUsers == {"demo001"}
NewUsers == {"alice"}
Users == DemoUsers \cup NewUsers

\* round(50000 + random.random() * 200000, 2): two of the draws
DemoBalances == {Dec(50000, 0), Dec(131072, 57)}
\* User.balance default
DefaultBalance == Dec(100000, 0)
\* session['fake_balance'] = 100000
FakeBalance == Dec(100000, 0)

\* the stocks list of trade_game
GameStocks == {"AAPL", "TSLA", "INFY", "TCS", "BTC", "ETH", "DOGE"}

\* form values
TradeSymbols == {"BTC", "DOGE", "ZZZ"}
Actions == {"buy", "sell", "hold"}
Amounts == {-1, 0, 1, 2}

NoHoldings == [s \in {} |-> [shares |-> 0, avg_price |-> Zero]]
NoFakeHoldings == [s \in {} |-> 0]

\* session.clear(), and the session of a new browser
EmptySession ==
    [user_id |-> "", fake |-> FALSE, fake_balance |-> Zero,
     fake_holdings |-> NoFakeHoldings]

Request(route, method, symbol, amount, price, applied, moves) ==
    [route |-> route, method |-> method, symbol |-> symbol, amount |-> amount,
     price |-> price, applied |-> applied, moves |-> moves]

\* trade_page: the price a trade is computed with
TradePrice(tbl, symbol) == get_price(tbl, symbol)

\* a buy applied whatever the balance
CanBuy_Always(bal, cost) == TRUE

\* trade_page: the buy is applied
CanBuy(bal, cost) == Leq(cost, bal)

\* a sell applied to any holding of the symbol
CanSell_AnyHolding(hold, symbol, amount) == symbol \in DOMAIN hold

\* trade_page: the sell is applied
CanSell(hold, symbol, amount) ==
    symbol \in DOMAIN hold /\ hold[symbol].shares >= amount

\* trade_page: the holdings of the user after a buy
HoldingsAfterBuy(hold, symbol, amount, price) ==
    IF symbol \in DOMAIN hold
    THEN LET holding == hold[symbol]
             total_shares == holding.shares + amount
             avg == DivInt(Add(MulInt(holding.avg_price, holding.shares),
                               MulInt(price, amount)), total_shares)
         IN  [hold EXCEPT ![symbol] = [shares |-> total_shares, avg_price |-> avg]]
    ELSE [s \in DOMAIN hold \cup {symbol} |->
             IF s = symbol THEN [shares |-> amount, avg_price |-> price] ELSE hold[s]]

\* trade_page: the holdings of the user after a sell
HoldingsAfterSell(hold, symbol, amount) ==
    LET shares == hold[symbol].shares - amount
    IN  IF shares = 0
        THEN [s \in DOMAIN hold \ {symbol} |-> hold[s]]
        ELSE [hold EXCEPT ![symbol].shares = shares]

\* trade_page: which branch a POST takes
TradeBranch(bal, hold, symbol, action, amount, price) ==
    IF action = "buy" /\ amount > 0
    THEN IF CanBuy(bal, MulInt(price, amount)) THEN "buy" ELSE "insufficient balance"
    ELSE IF action = "sell" /\ amount > 0
    THEN IF CanSell(hold, symbol, amount) THEN "sell" ELSE "not enough shares"
    ELSE "invalid trade"

\* trade_page without its simulate_movement call
TradeMoves_None(symbol) == << >>

\* trade_page: the symbols passed to simulate_movement by a POST
TradeMoves(symbol) == <<symbol>>

\* game, crypto_game: the symbols passed to simulate_movement by a POST
GameMoves(symbol) == <<symbol>>

\* trade_game: which branch a POST takes
FakeBranch(balance_, fake_holdings, symbol, action, amount, price) ==
    LET held == IF symbol \in DOMAIN fake_holdings THEN fake_holdings[symbol] ELSE 0
    IN  IF action = "buy" /\ amount > 0 /\ Leq(MulInt(price, amount), balance_)
        THEN "buy"
        ELSE IF action = "sell" /\ amount > 0 /\ held >= amount
        THEN "sell"
        ELSE "invalid transaction"

\* trade_game: holdings[symbol] = holdings.get(symbol, 0) + delta
FakeHoldingsAdd(fake_holdings, symbol, delta) ==
    [s \in DOMAIN fake_holdings \cup {symbol} |->
        IF s = symbol
        THEN (IF s \in DOMAIN fake_holdings THEN fake_holdings[s] ELSE 0) + delta
        ELSE fake_holdings[s]]

\* trade_game: the first lines, on a session without fake_balance
WithFakeMoney(sess) ==
    IF sess.fake THEN sess
    ELSE [sess EXCEPT !.fake = TRUE, !.fake_balance = FakeBalance,
                      !.fake_holdings = NoFakeHoldings]

AppInit ==
    /\ balance \in [DemoUsers -> DemoBalances]
    /\ holdings = [u \in DemoUsers |-> NoHoldings]
    /\ session = EmptySession
    /\ req = Request("", "", "", 0, Zero, "", << >>)
    /\ preBalance = balance
    /\ preHoldings = holdings
    /\ preSession = session
    /\ requests = 0

Remember ==
    /\ pre' = prices
    /\ preBalance' = balance
    /\ preHoldings' = holdings
    /\ preSession' = session

\* POST /register
Register(u) ==
    /\ requests < MaxRequests
    /\ u \notin DOMAIN balance
    /\ balance' = [w \in DOMAIN balance \cup {u} |->
                      IF w = u THEN DefaultBalance ELSE balance[w]]
    /\ holdings' = [w \in DOMAIN holdings \cup {u} |->
                      IF w = u THEN NoHoldings ELSE holdings[w]]
    /\ session' = [session EXCEPT !.user_id = u]
    /\ req' = Request("/register", "POST", "", 0, Zero, "", << >>)
    /\ requests' = requests + 1
    /\ Remember
    /\ UNCHANGED prices

\* POST /login with valid credentials
Login(u) ==
    /\ requests < MaxRequests
    /\ u \in DOMAIN balance
    /\ session' = [session EXCEPT !.user_id = u]
    /\ req' = Request("/login", "POST", "", 0, Zero, "", << >>)
    /\ requests' = requests + 1
    /\ Remember
    /\ UNCHANGED <<prices, balance, holdings>>

\* GET /logout
Logout ==
    /\ requests < MaxRequests
    /\ session' = EmptySession
    /\ req' = Request("/logout", "GET", "", 0, Zero, "", << >>)
    /\ requests' = requests + 1
    /\ Remember
    /\ UNCHANGED <<prices, balance, holdings>>

\* POST /trade
TradePost(symbol, action, amount, movement) ==
    /\ requests < MaxRequests
    /\ requests' = requests + 1
    /\ Remember
    /\ IF session.user_id = ""
       THEN /\ req' = Request("/trade", "POST", symbol, 0, Zero, "login", << >>)
            /\ UNCHANGED <<prices, balance, holdings, session>>
       ELSE LET u == session.user_id
                price == TradePrice(prices, symbol)
                branch == TradeBranch(balance[u], holdings[u], symbol, action,
                                      amount, price)
                moves == TradeMoves(symbol)
            IN  /\ \A k \in DOMAIN moves : Scalable(PricesGet(prices, moves[k]))
                /\ balance' =
                      CASE branch = "buy" ->
                             [balance EXCEPT ![u] = Sub(@, MulInt(price, amount))]
                        [] branch = "sell" ->
                             [balance EXCEPT ![u] = Add(@, MulInt(price, amount))]
                        [] OTHER -> balance
                /\ holdings' =
                      CASE branch = "buy" ->
                             [holdings EXCEPT
                                ![u] = HoldingsAfterBuy(@, symbol, amount, price)]
                        [] branch = "sell" ->
                             [holdings EXCEPT
                                ![u] = HoldingsAfterSell(@, symbol, amount)]
                        [] OTHER -> holdings
                /\ prices' = IF moves = << >> THEN prices
                             ELSE TableAfterMovement(prices, moves[1], movement)
                /\ req' = Request("/trade", "POST", symbol, amount, price, branch, moves)
                /\ UNCHANGED session

\* GET /trade
TradeGet ==
    /\ req' = Request("/trade", "GET", "", 0, Zero, "", << >>)
    /\ Remember
    /\ UNCHANGED <<prices, balance, holdings, session, requests>>

\* GET /trade-game
TradeGameGet ==
    /\ requests < MaxRequests
    /\ requests' = requests + 1
    /\ session' = WithFakeMoney(session)
    /\ req' = Request("/trade-game", "GET", "", 0, Zero, "", << >>)
    /\ Remember
    /\ UNCHANGED <<prices, balance, holdings>>

\* POST /trade-game
TradeGamePost(symbol, action, amount, saved) ==
    /\ requests < MaxRequests
    /\ requests' = requests + 1
    /\ Remember
    /\ UNCHANGED <<prices, balance, holdings>>
    /\ IF symbol \notin GameStocks
       THEN \* prices[symbol] raises KeyError; whether the session written so
            \* far reaches the browser depends on how the server is run
            /\ session' = IF saved THEN WithFakeMoney(session) ELSE session
            /\ req' = Request("/trade-game", "POST", symbol, 0, Zero, "error", << >>)
       ELSE LET sess == WithFakeMoney(session)
                price == get_snapshot(prices, <<symbol>>)[symbol]
                branch == FakeBranch(sess.fake_balance, sess.fake_holdings, symbol,
                                     action, amount, price)
            IN  /\ session' =
                      CASE branch = "buy" ->
                             [sess EXCEPT
                                !.fake_holdings = FakeHoldingsAdd(@, symbol, amount),
                                !.fake_balance = Sub(@, MulInt(price, amount))]
                        [] branch = "sell" ->
                             [sess EXCEPT
                                !.fake_holdings = FakeHoldingsAdd(@, symbol, -amount),
                                !.fake_balance = Add(@, MulInt(price, amount))]
                        [] OTHER -> sess
                /\ req' = Request("/trade-game", "POST", symbol, amount, price, branch, << >>)

\* POST /game and POST /crypto-game
GamePost(route, symbol, movement) ==
    /\ requests < MaxRequests
    /\ requests' = requests + 1
    /\ Remember
    /\ LET price == get_snapshot(prices, <<symbol>>)[symbol]
           moves == GameMoves(symbol)
       IN  /\ \A k \in DOMAIN moves : Scalable(PricesGet(prices, moves[k]))
           /\ prices' = IF moves = << >> THEN prices
                        ELSE TableAfterMovement(prices, moves[1], movement)
           /\ req' = Request(route, "POST", symbol, 0, price, "", moves)
    /\ UNCHANGED <<balance, holdings, session>>

RegisterRequest == \E u \in NewUsers : Register(u)
LoginRequest == \E u \in Users : Login(u)
TradePostRequest ==
    \E symbol \in TradeSymbols, action \in Actions, amount \in Amounts,
       movement \in Movements : TradePost(symbol, action, amount, movement)
TradeGamePostRequest ==
    \E symbol \in TradeSymbols, action \in Actions, amount \in Amounts,
       saved \in BOOLEAN : TradeGamePost(symbol, action, amount, saved)
GamePostRequest ==
    \E route \in {"/game", "/crypto-game"}, symbol \in TradeSymbols,
       movement \in Movements : GamePost(route, symbol, movement)

AppIdle ==
    /\ balance = [u \in DemoUsers |-> Dec(50000, 0)]
    /\ holdings = [u \in DemoUsers |-> NoHoldings]
    /\ session = EmptySession
    /\ req = Request("", "", "", 0, Zero, "", << >>)
    /\ preBalance = balance
    /\ preHoldings = holdings
    /\ preSession = session
    /\ requests = 0

(***************************************************************************)
(* Spec: a Market object under any sequence of direct calls.               *)
(***************************************************************************)
Init == MarketInit /\ AppIdle

Next ==
    \/ GetPriceCall /\ UNCHANGED appVars
    \/ GetSnapshotCall /\ UNCHANGED appVars
    \/ SimulateMovementCall /\ UNCHANGED appVars
    \/ UpdatePricesCall /\ UNCHANGED appVars

Spec == Init /\ [][Next]_vars

(***************************************************************************)
(* AppSpec: the application serving requests one at a time, its Market     *)
(* object called by the handlers only.                                     *)
(***************************************************************************)
AppStart == MarketInit /\ AppInit

AppNext ==
    \/ RegisterRequest /\ UNCHANGED callLog
    \/ LoginRequest /\ UNCHANGED callLog
    \/ Logout /\ UNCHANGED callLog
    \/ TradeGet /\ UNCHANGED callLog
    \/ TradePostRequest /\ UNCHANGED callLog
    \/ TradeGameGet /\ UNCHANGED callLog
    \/ TradeGamePostRequest /\ UNCHANGED callLog
    \/ GamePostRequest /\ UNCHANGED callLog

AppSpec == AppStart /\ [][AppNext]_vars

(***************************************************************************)
(* Properties.                                                             *)
(***************************************************************************)
IsCall(op) == last.op = op
Arg == last.syms[1]

TwoPct(x) == MulInt(Div100(x), MaxShockPct)
HalfCent == [i |-> 0, f |-> Cent \div 2]

\* C1 (as stated): every symbol passed so far to get_price, get_snapshot or
\* simulate_movement is a key of the price table.
C1_QueriedSymbolsAreKeys == queried \subseteq DOMAIN prices

\* C1 (amended): every symbol passed so far to simulate_movement is a key of
\* the price table; a symbol outside the demo table that was only passed to
\* get_price or get_snapshot is not a key, and get_price and get_snapshot
\* answer the fallback 100.0 for it.
C1_MovedSymbolsAreKeys ==
    /\ moved \subseteq DOMAIN prices
    /\ \A s \in queried \ (moved \cup SeedSymbols) : s \notin DOMAIN prices
    /\ (IsCall("get_price") /\ Arg \notin DOMAIN prices) => last.ret = Fallback
    /\ IsCall("get_snapshot") =>
          \A s \in Range(last.syms) \ DOMAIN prices : last.snap[s] = Fallback

C1_Witness ==
    /\ "ZZZ" \in moved
    /\ "ZZZ" \in DOMAIN prices
    /\ IsCall("update_prices")

\* C2 (as stated): right after simulate_movement(s), get_price(s) equals the
\* new_price the call returned.
C2_StoredEqualsReturned ==
    IsCall("simulate_movement") => get_price(prices, Arg) = last.ret

\* C2 (amended): simulate_movement(s) stores the new price p * (1 + step)
\* without rounding it, and returns that stored price rounded to 2 decimals.
C2_ReturnedIsStoredRounded ==
    IsCall("simulate_movement") =>
        /\ Arg \in DOMAIN prices
        /\ prices[Arg] = MulPct(PricesGet(pre, Arg), last.step)
        /\ last.ret = Round2(prices[Arg])

C2_Witness ==
    /\ IsCall("simulate_movement")
    /\ prices[Arg] # last.ret
    /\ last.ret = Round2(prices[Arg])

\* C3 (as stated): update_prices changes every price by at most 2% of its
\* value before the call and leaves the set of symbols unchanged.
C3_WithinTwoPercent ==
    IsCall("update_prices") =>
        /\ DOMAIN prices = DOMAIN pre
        /\ \A s \in DOMAIN pre :
              Leq(AbsDiff(prices[s], pre[s]), TwoPct(pre[s]))

\* C3 (amended): update_prices leaves the set of symbols unchanged and
\* replaces every price p by a value between round(0.98 * p, 2) and
\* round(1.02 * p, 2), so by at most 2% of p plus the half cent of rounding.
C3_WithinTwoPercentRounded ==
    IsCall("update_prices") =>
        /\ DOMAIN prices = DOMAIN pre
        /\ \A s \in DOMAIN pre :
              /\ Leq(Round2(MulPct(pre[s], -MaxShockPct)), prices[s])
              /\ Leq(prices[s], Round2(MulPct(pre[s], MaxShockPct)))
              /\ Leq(AbsDiff(prices[s], pre[s]), Add(TwoPct(pre[s]), HalfCent))

C3_Witness ==
    /\ IsCall("update_prices")
    /\ \E s \in DOMAIN pre :
          /\ pre[s] # Round2(pre[s])
          /\ ~Leq(AbsDiff(prices[s], pre[s]), TwoPct(pre[s]))

\* C4: simulate_movement(s) returns a step of +0.01 or -0.01 and the new price
\* round(p * (1 + step), 2), p being the price stored for s before the call
\* (the fallback 100.0 if s is absent), not the demo price.
C4_MovementFromStoredPrice ==
    IsCall("simulate_movement") =>
        /\ last.step \in {MovePct, -MovePct}
        /\ last.ret = Round2(MulPct(IF Arg \in DOMAIN pre THEN pre[Arg] ELSE Fallback,
                                    last.step))

C4_Witness ==
    /\ IsCall("simulate_movement")
    /\ Arg \in DOMAIN SeedPrices
    /\ pre[Arg] # SeedPrices[Arg]
    /\ last.ret # Round2(MulPct(SeedPrices[Arg], last.step))

\* C5: a symbol outside the demo table that was never passed to
\* simulate_movement has the price 100.0, whatever other calls were made.
C5_FallbackUntilMoved ==
    /\ \A s \in (Symbols \cup queried) \ (SeedSymbols \cup moved) :
          get_price(prices, s) = Fallback
    /\ (IsCall("get_price") /\ Arg \notin SeedSymbols \cup moved) =>
          last.ret = Fallback

C5_Witness ==
    /\ IsCall("get_price")
    /\ Arg = "ZZZ"
    /\ "ZZZ" \notin moved
    /\ moved # {}
    /\ updates > 0

\* C6: get_price and get_snapshot leave the price table as it was, keys and
\* prices, for any symbols passed.
C6_ReadsLeaveTable ==
    (IsCall("get_price") \/ IsCall("get_snapshot")) => prices = pre

C6_Witness ==
    /\ IsCall("get_snapshot")
    /\ "ZZZ" \in Range(last.syms)
    /\ "ZZZ" \notin DOMAIN pre
    /\ last.snap["ZZZ"] = Fallback
    /\ moved # {}

\* C7: simulate_movement(s) changes nothing for any other symbol t: t is a
\* key after the call exactly if it was one before, with the same price.
C7_MovementTouchesOneSymbol ==
    IsCall("simulate_movement") =>
        \A t \in (DOMAIN prices \cup DOMAIN pre \cup Symbols) \ {Arg} :
            /\ t \in DOMAIN prices <=> t \in DOMAIN pre
            /\ t \in DOMAIN pre => prices[t] = pre[t]

C7_Witness ==
    /\ IsCall("simulate_movement")
    /\ Arg = "AAPL"
    /\ "ZZZ" \notin DOMAIN prices
    /\ prices["DOGE"] # Round2(prices["DOGE"])

IsPost(route) == req.method = "POST" /\ req.route = route

\* the price table is the one before the request with s moved one step
MovedOnce(s) ==
    \E m \in Movements : prices = PricesSet(pre, s, MulPct(PricesGet(pre, s), m))

\* C8 (as stated): every POST to /trade (here: of a logged-in user) prices
\* the trade with get_price and then calls simulate_movement once for the
\* submitted symbol, and every POST to /game, /crypto-game and /trade-game
\* calls it once for the played symbol.
C8_EveryPostMoves ==
    /\ (IsPost("/trade") /\ preSession.user_id # "") =>
          req.price = PricesGet(pre, req.symbol)
    /\ ((IsPost("/trade") /\ preSession.user_id # "") \/ IsPost("/game")
           \/ IsPost("/crypto-game") \/ IsPost("/trade-game")) =>
          /\ req.moves = <<req.symbol>>
          /\ MovedOnce(req.symbol)

\* C8 (amended): a POST to /trade by a logged-in user prices the trade with
\* get_price and then calls simulate_movement once for the submitted symbol,
\* whether the trade is applied, rejected or invalid; a POST to /game or
\* /crypto-game calls it once for the played symbol; a POST to /trade-game,
\* or to /trade without a login, makes no call and leaves the table alone.
C8_TradeAndGuessGamesMove ==
    /\ (IsPost("/trade") /\ preSession.user_id # "") =>
          /\ req.price = PricesGet(pre, req.symbol)
          /\ req.moves = <<req.symbol>>
          /\ MovedOnce(req.symbol)
    /\ (IsPost("/game") \/ IsPost("/crypto-game")) =>
          /\ req.moves = <<req.symbol>>
          /\ MovedOnce(req.symbol)
    /\ (IsPost("/trade-game") \/ (IsPost("/trade") /\ preSession.user_id = "")) =>
          /\ req.moves = << >>
          /\ prices = pre

C8_Witness ==
    /\ IsPost("/trade")
    /\ req.applied = "not enough shares"
    /\ req.price # PricesGet(prices, req.symbol)
    /\ req.price # PricesGet(SeedPrices, req.symbol)

\* C9: no Holding row and no entry of fake_holdings has a negative share
\* count: a sell is applied only to a holding of at least the amount sold,
\* and a holding sold down to 0 shares is deleted.
C9_SharesNonNegative ==
    /\ \A u \in DOMAIN holdings : \A s \in DOMAIN holdings[u] :
          holdings[u][s].shares > 0
    /\ \A s \in DOMAIN session.fake_holdings : session.fake_holdings[s] >= 0
    /\ (IsPost("/trade") /\ req.applied = "sell") =>
          /\ req.symbol \in DOMAIN preHoldings[preSession.user_id]
          /\ preHoldings[preSession.user_id][req.symbol].shares >= req.amount
    /\ (IsPost("/trade-game") /\ req.applied = "sell") =>
          /\ req.symbol \in DOMAIN preSession.fake_holdings
          /\ preSession.fake_holdings[req.symbol] >= req.amount

C9_Witness ==
    /\ IsPost("/trade")
    /\ req.applied = "sell"
    /\ req.symbol \notin DOMAIN holdings[session.user_id]
    /\ preHoldings[session.user_id][req.symbol].shares = req.amount

\* C10: no user's balance is negative: a buy is applied only when the balance
\* covers price * amount at the price read in the request, and a rejected or
\* invalid trade leaves every balance and holding as it was.
C10_BalanceNonNegative ==
    /\ \A u \in DOMAIN balance : Leq(Zero, balance[u])
    /\ (IsPost("/trade") /\ req.applied = "buy") =>
          /\ req.price = PricesGet(pre, req.symbol)
          /\ Leq(MulInt(req.price, req.amount), preBalance[preSession.user_id])
    /\ (IsPost("/trade") /\ req.applied \in
            {"insufficient balance", "not enough shares", "invalid trade"}) =>
          /\ balance = preBalance
          /\ holdings = preHoldings

C10_Witness ==
    /\ IsPost("/trade")
    /\ req.applied = "insufficient balance"
    /\ pre # SeedPrices
    /\ \E u \in DOMAIN holdings : holdings[u] # NoHoldings

====
